---- MODULE Spec2Model ----
(***************************************************************************)
(* A model of the two scripts of the repository.                           *)
(*                                                                         *)
(*   top5.py               main(): rank the processes by memory share,     *)
(*                         look up the I/O counters of the finalists,      *)
(*                         then scan the filesystem for the largest files. *)
(*   fix_create_session.py add_to_file(): back the target file up and      *)
(*                         append a session configuration to it.           *)
(*                                                                         *)
(* The process tuple (pid, name, mem_percent, rss, username) is kept as    *)
(* [pid, mem]: name, rss and username are carried through unchanged and    *)
(* take no part in any decision of the code.  The file scan is the posix   *)
(* branch of get_top_disk_files (os.name /= 'nt').                         *)
(***************************************************************************)
EXTENDS Integers, Sequences, FiniteSets, TLC

VARIABLES
    \* ---- top5.py ----
    table,                 \* the live process table, in discovery order: table[p] is the memory share of pid p
    num_processes,         \* the parameter of get_top_memory_processes
    num_files,             \* the parameter of get_top_disk_files
    pc,                    \* the position of main()
    outcome,               \* outcome[p]: how the attribute reads of the p-th enumerated process ended
    process_memory,        \* the local list of get_top_memory_processes
    top_memory_processes,  \* the list main() receives
    out,                   \* what has been printed (standard output and the traceback of an uncaught exception)
    owner,                 \* owner[pid]: the process that holds the pid now (0: the pid is free)
    lookups,               \* the calls get_process_disk_usage(pid) made so far, with how each ended
    row,                   \* how many finalists the loop of display_top_memory_processes has taken
    rows,                  \* the rows of the process table printed so far
    files,                 \* the regular files of the filesystem, in the order find reaches them
    top_disk_files,        \* the list get_top_disk_files returned
    \* ---- fix_create_session.py ----
    exists,                \* os.path.exists(filename)
    content,               \* the bytes of the target file
    initial,               \* the bytes of the target file before the first call
    clock,                 \* datetime.now(), to the second
    backups,               \* backups[t]: the bytes of filename.backup_<t> (<<"absent">> when not written)
    calls                  \* one record per finished add_to_file call

top5vars == <<table, num_processes, num_files, pc, outcome, process_memory, top_memory_processes,
              out, owner, lookups, row, rows, files, top_disk_files>>
cfgvars == <<exists, content, initial, clock, backups, calls>>
vars == <<top5vars, cfgvars>>

(***************************************************************************)
(* Bounds of the model.                                                    *)
(***************************************************************************)
MaxProcs == 3
MaxN == 2
MaxFiles == 3
MaxCalls == 2
MaxInitLen == 2
MaxClock == 1

MemVals == {40, 90}
SizeVals == {10, 500, 1000}

Min(a, b) == IF a <= b THEN a ELSE b

(***************************************************************************)
(* top5.py: get_top_memory_processes                                       *)
(***************************************************************************)
ReadKinds == {"ok", "NoSuchProcess", "AccessDenied", "ZombieProcess", "Exception"}
SilentKinds == {"NoSuchProcess", "AccessDenied", "ZombieProcess"}

Line(t, p) == [t |-> t, pid |-> p]

Tables(maxp) == UNION {[1..n -> MemVals] : n \in 0..maxp}

\* line 38: the tuple appended for process p
Entry(tbl, p) == [pid |-> p, mem |-> tbl[p]]

\* A loop body that would keep a process whatever its reads gave
AppendAlways(pm, tbl, p, kind) == Append(pm, Entry(tbl, p))
\* lines 33-43, the list: only a process whose reads all succeeded is appended
AppendOnOk(pm, tbl, p, kind) ==
    IF kind = "ok" THEN Append(pm, Entry(tbl, p)) ELSE pm

\* Handlers that would print for the three expected kinds too
PrintsOnAnyFailure(o, p, kind) ==
    IF kind # "ok" THEN Append(o, Line("ErrorMemoryInfo", p)) ELSE o
\* lines 39-43, the output: the three expected kinds pass silently, any other exception is printed
PrintOnRead(o, p, kind) ==
    IF kind \notin SilentKinds \cup {"ok"} THEN Append(o, Line("ErrorMemoryInfo", p)) ELSE o

\* An insertion that would put an element before its equals: a sort that is not stable
RECURSIVE InsertTiesFirst(_, _)
InsertTiesFirst(s, e) ==
    IF s = <<>> THEN <<e>>
    ELSE IF Head(s).mem > e.mem THEN <<Head(s)>> \o InsertTiesFirst(Tail(s), e)
    ELSE <<e>> \o s
\* line 46: sorted(process_memory, key=lambda x: x[2], reverse=True).  Python's sort is
\* stable and reverse=True keeps the original order of equal keys.
RECURSIVE InsertDesc(_, _)
InsertDesc(s, e) ==
    IF s = <<>> THEN <<e>>
    ELSE IF Head(s).mem >= e.mem THEN <<Head(s)>> \o InsertDesc(Tail(s), e)
    ELSE <<e>> \o s
RECURSIVE SortedByMemDesc(_)
SortedByMemDesc(s) ==
    IF s = <<>> THEN <<>>
    ELSE InsertDesc(SortedByMemDesc(SubSeq(s, 1, Len(s) - 1)), s[Len(s)])

\* A cut that would be off by one
SliceOneMore(s, n) == SubSeq(s, 1, Min(n + 1, Len(s)))
\* line 47: process_memory[:num_processes], num_processes >= 0
Slice(s, n) == SubSeq(s, 1, Min(n, Len(s)))

\* lines 45-47 and main line 187: sort, cut, return to main
ReturnTopN(pm) ==
    /\ process_memory' = SortedByMemDesc(pm)
    /\ top_memory_processes' = Slice(SortedByMemDesc(pm), num_processes)
    /\ pc' = "display"

\* lines 31-47 when every read succeeds: the list returned for the entries es and N = n
RankAllOk(es, n) == Slice(SortedByMemDesc(es), n)

\* lines 25-28: psutil.process_iter() itself raises; caught, reported, [] returned
ProcessIterFails ==
    /\ pc = "main"
    /\ out' = Append(out, Line("ErrorProcessList", 0))
    /\ top_memory_processes' = <<>>
    /\ pc' = "display"
    /\ UNCHANGED <<table, num_processes, num_files, outcome, process_memory, owner, lookups, row, rows,
                   files, top_disk_files, cfgvars>>

\* line 32: the iterator raises when the for loop first advances it.  The loop is outside
\* the try of lines 23-28 and main() has no handler: the exception ends the run.
FirstAdvanceFails ==
    /\ pc = "main"
    /\ out' = Append(out, Line("Traceback", 0))
    /\ pc' = "crashed"
    /\ UNCHANGED <<table, num_processes, num_files, outcome, process_memory, top_memory_processes,
                   owner, lookups, row, rows, files, top_disk_files, cfgvars>>

\* lines 25, 31-32: the enumeration starts; an empty table goes straight to lines 46-47
EnumerationStarts ==
    /\ pc = "main"
    /\ IF table = <<>>
       THEN ReturnTopN(<<>>)
       ELSE pc' = "enumerate" /\ UNCHANGED <<process_memory, top_memory_processes>>
    /\ UNCHANGED <<table, num_processes, num_files, outcome, out, owner, lookups, row, rows,
                   files, top_disk_files, cfgvars>>

\* lines 32-43: one iteration of the loop over process p; after the last one, lines 46-47
ReadProcess ==
    /\ pc = "enumerate"
    /\ Len(outcome) < Len(table)
    /\ \E kind \in ReadKinds :
         LET p == Len(outcome) + 1
             pm == AppendOnOk(process_memory, table, p, kind)
         IN /\ outcome' = Append(outcome, kind)
            /\ out' = PrintOnRead(out, p, kind)
            /\ IF p = Len(table)
               THEN ReturnTopN(pm)
               ELSE /\ process_memory' = pm
                    /\ UNCHANGED <<pc, top_memory_processes>>
    /\ UNCHANGED <<table, num_processes, num_files, owner, lookups, row, rows, files, top_disk_files, cfgvars>>

(***************************************************************************)
(* top5.py: get_process_disk_usage and display_top_memory_processes        *)
(***************************************************************************)
\* The process that received pid p after the ranked one died: another identity.
NewProcess(p) == Len(table) + p

\* lines 64-66: the counters the platform holds for process u (never 0/0 here, so that
\* a row shows whose counters it reports)
IoCounters(u) == [read_bytes |-> 10 * u + 1, write_bytes |-> 10 * u + 2]

\* lines 63-64: psutil.Process(pid) addresses whatever process holds the pid now
LookupKinds(u) ==
    IF u = 0 THEN {"NoSuchProcess"} ELSE {"ok", "AccessDenied", "Exception"}

\* lines 62-72: the pair get_process_disk_usage returns
DiskUsage(kind, u) ==
    IF kind = "ok" THEN IoCounters(u) ELSE [read_bytes |-> 0, write_bytes |-> 0]

\* lines 68-72: only an exception other than NoSuchProcess and AccessDenied is printed
PrintOnLookup(o, p, kind) ==
    IF kind \notin {"ok", "NoSuchProcess", "AccessDenied"}
    THEN Append(o, Line("ErrorDiskUsage", p)) ELSE o

\* lines 138-145: nothing to show, or the header of the table
DisplayBegin ==
    /\ pc = "display"
    /\ IF top_memory_processes = <<>>
       THEN out' = Append(out, Line("NoProcesses", 0)) /\ pc' = "scan"
       ELSE out' = Append(out, Line("ProcessHeader", 0)) /\ pc' = "rows"
    /\ UNCHANGED <<table, num_processes, num_files, outcome, process_memory, top_memory_processes,
                   owner, lookups, row, rows, files, top_disk_files, cfgvars>>

\* A loop body that would repeat a failed lookup once
RetryOnFailure(kind) == IF kind = "ok" THEN 1 ELSE 2
\* line 149: how many times the loop body calls get_process_disk_usage for one finalist
LookupsPerRow(kind) == 1

RECURSIVE Repeat(_, _)
Repeat(e, n) == IF n = 0 THEN <<>> ELSE <<e>> \o Repeat(e, n - 1)

\* A loop body that would drop the finalist whose lookup failed
SkipFailedRow(rs, r, kind) == IF kind = "ok" THEN Append(rs, r) ELSE rs
\* lines 152-155: the row is printed whatever the lookup gave
PrintRow(rs, r, kind) == Append(rs, r)

\* lines 147-157: one iteration over the finalists: the lookup, then the row

DisplayRow ==
    /\ pc = "rows"
    /\ row < Len(top_memory_processes)
    /\ LET f == top_memory_processes[row + 1]
           u == owner[f.pid]
       IN \E kind \in LookupKinds(u) :
            LET io == DiskUsage(kind, u)
                r == [pid |-> f.pid, mem |-> f.mem,
                      read_bytes |-> io.read_bytes, write_bytes |-> io.write_bytes]
            IN /\ lookups' = lookups \o Repeat([pid |-> f.pid, kind |-> kind, process |-> u],
                                               LookupsPerRow(kind))
               /\ out' = Append(PrintOnLookup(out, f.pid, kind), Line("Row", f.pid))
               /\ rows' = PrintRow(rows, r, kind)
               /\ row' = row + 1
               /\ pc' = IF row + 1 = Len(top_memory_processes) THEN "scan" ELSE "rows"
    /\ UNCHANGED <<table, num_processes, num_files, outcome, process_memory,
                   top_memory_processes, owner, files, top_disk_files, cfgvars>>

\* The environment between the memory phase and a finalist's lookup: the ranked process
\* exits, and its pid is handed to a new process.  Only the pids of finalists still to be
\* looked up are followed: no other pid is ever passed to psutil.Process, and an exit
\* before the header is printed is no different from one right after it.
Pending == {top_memory_processes[i].pid : i \in (row + 1)..Len(top_memory_processes)}

ProcessExits ==
    /\ pc = "rows"
    /\ \E p \in Pending :
         /\ owner[p] = p
         /\ owner' = [owner EXCEPT ![p] = 0]
    /\ UNCHANGED <<table, num_processes, num_files, pc, outcome, process_memory, top_memory_processes,
                   out, lookups, row, rows, files, top_disk_files, cfgvars>>

PidReused ==
    /\ pc = "rows"
    /\ \E p \in Pending :
         /\ owner[p] = 0
         /\ owner' = [owner EXCEPT ![p] = NewProcess(p)]
    /\ UNCHANGED <<table, num_processes, num_files, pc, outcome, process_memory, top_memory_processes,
                   out, lookups, row, rows, files, top_disk_files, cfgvars>>

(***************************************************************************)
(* top5.py: get_top_disk_files (posix branch) and display_top_disk_files   *)
(*                                                                         *)
(* A file is [path, size, accessible]; a path is its sequence of           *)
(* whitespace-separated words (<<3>> is one word, <<3, 0>> two), a line of  *)
(* du's output is [size, path].                                            *)
(***************************************************************************)
PathsOf(i) == {<<i>>, <<i, 0>>}
FileSystems(maxf) ==
    UNION {{fs \in [1..n -> [path : UNION {PathsOf(i) : i \in 1..n}, size : SizeVals,
                             accessible : BOOLEAN]] :
              \A i \in 1..n : fs[i].path \in PathsOf(i)} : n \in 0..maxf}

\* line 110, find | xargs du -b: one line per file du can stat, errors go to stderr
RECURSIVE DuLines(_)
DuLines(fs) ==
    IF fs = <<>> THEN <<>>
    ELSE (IF Head(fs).accessible THEN << [size |-> Head(fs).size, path |-> Head(fs).path] >>
          ELSE <<>>) \o DuLines(Tail(fs))

\* line 110, sort -nr: by the leading number, largest first; equal numbers fall back to
\* the whole line, reversed too
LineBefore(a, b) ==
    \/ a.size > b.size
    \/ a.size = b.size /\ a.path[1] > b.path[1]
RECURSIVE InsertLine(_, _)
InsertLine(s, e) ==
    IF s = <<>> THEN <<e>>
    ELSE IF LineBefore(e, Head(s)) THEN <<e>> \o s
    ELSE <<Head(s)>> \o InsertLine(Tail(s), e)
RECURSIVE SortNumericReverse(_)
SortNumericReverse(s) ==
    IF s = <<>> THEN <<>> ELSE InsertLine(SortNumericReverse(Tail(s)), Head(s))

\* line 115: line.split(): the size, then the words of the path
Split(line) == <<line.size>> \o line.path

\* lines 114-122: a line is kept only if it splits into exactly two fields
RECURSIVE ParseLines(_)
ParseLines(lines) ==
    IF lines = <<>> THEN <<>>
    ELSE LET parts == Split(Head(lines))
         IN (IF Len(parts) = 2 THEN << [path |-> << parts[2] >>, size |-> parts[1]] >>
             ELSE <<>>) \o ParseLines(Tail(lines))

\* lines 110-112: the lines the pipeline hands to Python: head -n {num_files}
PipelineLines(fs, n) == Slice(SortNumericReverse(DuLines(fs)), n)

\* lines 110-123
TopDiskFiles(fs, n) == ParseLines(PipelineLines(fs, n))

\* lines 110-123, main line 189
ScanFiles ==
    /\ pc = "scan"
    /\ top_disk_files' = TopDiskFiles(files, num_files)
    /\ pc' = "display_files"
    /\ UNCHANGED <<table, num_processes, num_files, outcome, process_memory, top_memory_processes,
                   out, owner, lookups, row, rows, files, cfgvars>>

\* lines 125-127: subprocess.run raises; caught, reported, [] returned
ScanFails ==
    /\ pc = "scan"
    /\ out' = Append(out, Line("ErrorTopDiskFiles", 0))
    /\ top_disk_files' = <<>>
    /\ pc' = "display_files"
    /\ UNCHANGED <<table, num_processes, num_files, outcome, process_memory, top_memory_processes,
                   owner, lookups, row, rows, files, cfgvars>>

\* lines 168-179, main line 190
DisplayFiles ==
    /\ pc = "display_files"
    /\ out' = Append(out, Line(IF top_disk_files = <<>> THEN "NoFiles" ELSE "FileTable", 0))
    /\ pc' = "done"
    /\ UNCHANGED <<table, num_processes, num_files, outcome, process_memory, top_memory_processes,
                   owner, lookups, row, rows, files, top_disk_files, cfgvars>>

(***************************************************************************)
(* fix_create_session.py: add_to_file, on a posix host                     *)
(*                                                                         *)
(* A file is its sequence of bytes over "a", "b", "CR" and "LF".  Both     *)
(* files are opened in text mode with the default newline=None.  A file    *)
(* operation that raises is taken to raise before any byte is written.     *)
(***************************************************************************)
Bytes == {"a", "CR", "LF"}
Contents(maxlen) == UNION {[1..n -> Bytes] : n \in 0..maxlen}

\* lines 52-74: a configuration starts and ends with a newline
Configs == {<<"LF", "a", "LF">>, <<"LF", "b", "LF">>}

\* lines 83 and 85, original.read(): universal newlines: "\r\n" and "\r" are read as "\n"
RECURSIVE ReadText(_)
ReadText(b) ==
    IF b = <<>> THEN <<>>
    ELSE IF Head(b) = "CR"
         THEN IF Len(b) >= 2 /\ b[2] = "LF"
              THEN <<"LF">> \o ReadText(SubSeq(b, 3, Len(b)))
              ELSE <<"LF">> \o ReadText(Tail(b))
         ELSE <<Head(b)>> \o ReadText(Tail(b))

\* os.linesep
LineSep == <<"LF">>

\* lines 85 and 90, write(): "\n" is written as os.linesep
RECURSIVE WriteText(_)
WriteText(t) ==
    IF t = <<>> THEN <<>>
    ELSE (IF Head(t) = "LF" THEN LineSep ELSE <<Head(t)>>) \o WriteText(Tail(t))

Absent == <<"absent">>

\* How a call ends: it completes, or one of its file operations raises
BackupFailures == {"open_original", "open_backup", "read_original", "write_backup"}
AppendFailures == {"open_append", "write_append"}

\* lines 82-85: what the backup step leaves in filename.backup_<timestamp>; open(..., 'w')
\* empties the file before anything is read or written
BackupWritten(old, bytes, failure) ==
    CASE failure \in {"open_original", "open_backup"} -> old
      [] failure \in {"read_original", "write_backup"} -> <<>>
      [] OTHER -> WriteText(ReadText(bytes))

\* lines 89-90: what the append step leaves in the target file
Appended(bytes, config, failure) ==
    IF failure \in AppendFailures THEN bytes ELSE bytes \o WriteText(config)

\* lines 77-98: one call add_to_file(config_content, filename)
AddToFile ==
    /\ pc = "cfg"
    /\ Len(calls) < MaxCalls
    /\ \E config \in Configs, failure \in {"none"} \cup BackupFailures \cup AppendFailures :
         /\ failure \in BackupFailures => exists
         /\ LET b == IF exists THEN BackupWritten(backups[clock], content, failure)
                     ELSE backups[clock]
                c == IF failure \in BackupFailures THEN content
                     ELSE Appended(content, config, failure)
            IN /\ backups' = [backups EXCEPT ![clock] = b]
               /\ content' = c
               /\ exists' = (exists \/ failure \in {"none", "write_append"})
               /\ calls' = Append(calls, [config |-> config,
                                          returned |-> (failure = "none"),
                                          failure |-> failure,
                                          existed |-> exists,
                                          before |-> content,
                                          after |-> c,
                                          backup |-> IF exists THEN b ELSE Absent])
    /\ UNCHANGED <<top5vars, initial, clock>>

\* A second passes between two calls: the next backup gets another name
Tick ==
    /\ pc = "cfg"
    /\ clock < MaxClock
    /\ clock' = clock + 1
    /\ UNCHANGED <<top5vars, exists, content, initial, backups, calls>>

(***************************************************************************)
(* The specifications.                                                     *)
(***************************************************************************)
\* The filesystem of a whole run of main(): it holds an unreadable file and a path of
\* two words
RunFileSystems ==
    {<< [path |-> <<1>>, size |-> 500, accessible |-> TRUE],
        [path |-> <<2, 0>>, size |-> 1000, accessible |-> TRUE],
        [path |-> <<3>>, size |-> 10, accessible |-> FALSE] >>}

IdleCfg ==
    /\ exists = FALSE
    /\ content = <<>>
    /\ initial = <<>>
    /\ clock = 0
    /\ backups = [t \in 0..MaxClock |-> Absent]
    /\ calls = <<>>

InitTop5(tables, ns, filesystems, start) ==
    /\ table \in tables
    /\ num_processes \in ns
    /\ num_files = num_processes
    /\ pc = start
    /\ outcome = <<>>
    /\ process_memory = <<>>
    /\ top_memory_processes = <<>>
    /\ out = <<>>
    /\ owner = [p \in 1..Len(table) |-> p]
    /\ lookups = <<>>
    /\ row = 0
    /\ rows = <<>>
    /\ files \in filesystems
    /\ top_disk_files = <<>>

\* top5.py, main(): lines 183-190
Init == InitTop5(Tables(MaxProcs), 0..MaxN, RunFileSystems, "main") /\ IdleCfg

Next ==
    \/ ProcessIterFails
    \/ FirstAdvanceFails
    \/ EnumerationStarts
    \/ ReadProcess
    \/ DisplayBegin
    \/ DisplayRow
    \/ ProcessExits
    \/ PidReused
    \/ ScanFiles
    \/ ScanFails
    \/ DisplayFiles

Spec == Init /\ [][Next]_vars

\* top5.py, get_top_disk_files(N) and its display alone, on every small filesystem
InitFiles == InitTop5({<<>>}, 0..MaxN, FileSystems(MaxFiles), "scan") /\ IdleCfg

NextFiles ==
    \/ ScanFiles
    \/ ScanFails
    \/ DisplayFiles

SpecFiles == InitFiles /\ [][NextFiles]_vars

\* fix_create_session.py: a sequence of add_to_file calls on one file
InitCfg ==
    /\ InitTop5({<<>>}, {0}, {<<>>}, "cfg")
    /\ exists \in BOOLEAN
    /\ content \in (IF exists THEN Contents(MaxInitLen) ELSE {<<>>})
    /\ initial = content
    /\ clock = 0
    /\ backups = [t \in 0..MaxClock |-> Absent]
    /\ calls = <<>>

NextCfg ==
    \/ AddToFile
    \/ Tick

SpecCfg == InitCfg /\ [][NextCfg]_vars

(***************************************************************************)
(* Properties of top5.py, checked under Spec.                              *)
(***************************************************************************)
\* get_top_memory_processes has returned to main
Returned == pc \in {"display", "rows", "scan", "display_files", "done"}
\* display_top_memory_processes has returned to main
Displayed == pc \in {"scan", "display_files", "done"}

OkPids == {p \in 1..Len(outcome) : outcome[p] = "ok"}
FailedPids == {p \in 1..Len(outcome) : outcome[p] # "ok"}
TopPids == {top_memory_processes[i].pid : i \in 1..Len(top_memory_processes)}
Printed(t) == SelectSeq(out, LAMBDA l : l.t = t)

\* C1: the returned list has exactly min(N, number of successfully read processes)
\* entries, each a successfully read process with its memory share, in non-increasing
\* order of memory share, equal shares in discovery order, and no process left out
\* ranks before a process kept.
C1_TopNStableDescending ==
    Returned =>
      LET top == top_memory_processes IN
      /\ Len(top) = Min(num_processes, Cardinality(OkPids))
      /\ \A i \in 1..Len(top) : top[i].pid \in OkPids /\ top[i].mem = table[top[i].pid]
      /\ \A i, j \in 1..Len(top) :
           i < j => \/ top[i].mem > top[j].mem
                    \/ top[i].mem = top[j].mem /\ top[i].pid < top[j].pid
      /\ \A q \in OkPids \ TopPids : \A i \in 1..Len(top) :
           \/ top[i].mem > table[q]
           \/ top[i].mem = table[q] /\ top[i].pid < q

\* The scenario of the claim: A:40, B:90, C:90 discovered in this order, N = 2: [B, C]
C1_Witness ==
    /\ pc = "display"
    /\ table = <<40, 90, 90>>
    /\ outcome = <<"ok", "ok", "ok">>
    /\ num_processes = 2
    /\ top_memory_processes = <<[pid |-> 2, mem |-> 90], [pid |-> 3, mem |-> 90]>>

Survivors ==
    SelectSeq([p \in 1..Len(outcome) |-> Entry(table, p)], LAMBDA e : outcome[e.pid] = "ok")

ErrorLines == SelectSeq(out, LAMBDA l : l.t \in {"ErrorProcessList", "ErrorMemoryInfo", "Traceback"})

\* C3, as claimed: whatever the kinds of the failures, the list returned is the one
\* returned for the table without the failed processes, and nothing reporting an error
\* reaches the user when at least one process was read.
C3_FailuresInvisible ==
    Returned =>
      /\ top_memory_processes = RankAllOk(Survivors, num_processes)
      /\ OkPids # {} => ErrorLines = <<>>

\* C3, amended: the list returned is the one returned for the table without the failed
\* processes; no exception leaves the loop; a failure by NoSuchProcess, AccessDenied or
\* ZombieProcess prints nothing, and every failure of another kind prints one line.
C3_FailuresLeaveRankingOfTheRest ==
    /\ Returned => top_memory_processes = RankAllOk(Survivors, num_processes)
    /\ outcome # <<>> =>
         /\ pc # "crashed"
         /\ Printed("Traceback") = <<>>
         /\ Printed("ErrorProcessList") = <<>>
    /\ Len(Printed("ErrorMemoryInfo")) =
         Cardinality({p \in FailedPids : outcome[p] \notin SilentKinds})

C3_Witness ==
    /\ pc = "display"
    /\ num_processes = 1
    /\ table = <<90, 40, 90>>
    /\ outcome = <<"Exception", "ok", "NoSuchProcess">>
    /\ top_memory_processes = <<[pid |-> 2, mem |-> 40]>>
    /\ Len(ErrorLines) = 1

\* C4: every finalist is printed, in the order of the ranking, and a finalist whose
\* I/O lookup failed is printed with read_bytes = 0 and write_bytes = 0.
C4_FailedLookupKeepsRow ==
    /\ Len(rows) = row
    /\ row <= Len(top_memory_processes)
    /\ Displayed => Len(rows) = Len(top_memory_processes)
    /\ \A i \in 1..Len(rows) :
         /\ i <= Len(top_memory_processes)
         /\ rows[i].pid = top_memory_processes[i].pid
         /\ rows[i].mem = top_memory_processes[i].mem
         /\ (\E k \in 1..Len(lookups) : lookups[k].pid = rows[i].pid /\ lookups[k].kind # "ok")
              => rows[i].read_bytes = 0 /\ rows[i].write_bytes = 0

\* The scenario of the claim: the lookup of the first finalist fails, the second succeeds
C4_Witness ==
    /\ pc = "done"
    /\ Len(rows) = 2
    /\ lookups[1].kind = "NoSuchProcess"
    /\ rows[1].pid = top_memory_processes[1].pid
    /\ rows[1].read_bytes = 0 /\ rows[1].write_bytes = 0
    /\ lookups[2].kind = "ok"
    /\ rows[2].read_bytes > 0

ProcessReportShown == Printed("NoProcesses") # <<>> \/ Printed("ProcessHeader") # <<>>
FileReportShown == Printed("NoFiles") # <<>> \/ Printed("FileTable") # <<>>

\* C5: when main() has ended, both sub-reports have been shown, whichever of them
\* failed as a whole.
C5_BothSubReportsShown ==
    pc \in {"done", "crashed"} => ProcessReportShown /\ FileReportShown

\* C7: the I/O lookups are made after the ranking has been returned, for the pids of
\* the returned list in its order, one lookup per finalist, at most N in all, and a
\* failed lookup is not repeated.
C7_OneLookupPerFinalist ==
    /\ lookups # <<>> => Returned
    /\ Len(lookups) = row
    /\ Len(lookups) <= Len(top_memory_processes)
    /\ Len(lookups) <= num_processes
    /\ \A k \in 1..Len(lookups) :
         k <= Len(top_memory_processes) /\ lookups[k].pid = top_memory_processes[k].pid
    /\ Displayed => Len(lookups) = Len(top_memory_processes)

C7_Witness ==
    /\ pc = "done"
    /\ Len(table) = 3
    /\ OkPids = {1, 2, 3}
    /\ Len(lookups) = 2
    /\ lookups[1].kind = "AccessDenied"
    /\ lookups[2].kind = "ok"

\* C8: the diagnostic lines of the enumeration are, in order, one for each process whose
\* reads failed by something other than NoSuchProcess, AccessDenied or ZombieProcess, and
\* once the loop has started it ends only after every process of the table was examined.
C8_DiagnosticIffUnexpected ==
    /\ LET unexpected == SelectSeq([p \in 1..Len(outcome) |-> p],
                                   LAMBDA p : outcome[p] \notin SilentKinds \cup {"ok"})
       IN Printed("ErrorMemoryInfo") = [k \in 1..Len(unexpected) |-> Line("ErrorMemoryInfo", unexpected[k])]
    /\ pc = "enumerate" => Len(outcome) < Len(table)
    /\ pc = "crashed" => outcome = <<>>
    /\ Returned /\ Printed("ErrorProcessList") = <<>> => Len(outcome) = Len(table)

C8_Witness ==
    /\ pc = "display"
    /\ outcome = <<"ZombieProcess", "Exception", "ok">>
    /\ Printed("ErrorMemoryInfo") = <<Line("ErrorMemoryInfo", 2)>>
    /\ Len(top_memory_processes) = 1

\* C9: the counters printed for a finalist are those of the process that was ranked
\* (the first holder of the pid) or 0/0.
C9_CountersOfTheRankedProcess ==
    \A i \in 1..Len(rows) :
      \/ rows[i].read_bytes = 0 /\ rows[i].write_bytes = 0
      \/ /\ rows[i].read_bytes = IoCounters(rows[i].pid).read_bytes
         /\ rows[i].write_bytes = IoCounters(rows[i].pid).write_bytes

(***************************************************************************)
(* Property of get_top_disk_files, checked under SpecFiles.                *)
(***************************************************************************)
Accessible == {i \in 1..Len(files) : files[i].accessible}
Reported(i) == \E k \in 1..Len(top_disk_files) : top_disk_files[k].path = files[i].path

\* C6: a scan that did not fail as a whole returns min(N, number of accessible files)
\* entries, each an accessible file with its size, in non-increasing order of size, and
\* no accessible file left out is larger than a file returned; whatever the paths are.
C6_LargestAccessibleFiles ==
    pc \in {"display_files", "done"} /\ Printed("ErrorTopDiskFiles") = <<>> =>
      /\ Len(top_disk_files) = Min(num_files, Cardinality(Accessible))
      /\ \A k \in 1..Len(top_disk_files) :
           \E i \in Accessible : /\ top_disk_files[k].path = files[i].path
                                 /\ top_disk_files[k].size = files[i].size
      /\ \A k, l \in 1..Len(top_disk_files) :
           k < l => top_disk_files[k].size >= top_disk_files[l].size
      /\ \A i \in Accessible : ~Reported(i) =>
           \A k \in 1..Len(top_disk_files) : top_disk_files[k].size >= files[i].size

(***************************************************************************)
(* Property of add_to_file, checked under SpecCfg.                         *)
(***************************************************************************)
RECURSIVE AcceptedConfigs(_)
AcceptedConfigs(cs) ==
    IF cs = <<>> THEN <<>>
    ELSE (IF Head(cs).returned THEN Head(cs).config ELSE <<>>) \o AcceptedConfigs(Tail(cs))

\* C10: the file is its initial content followed by the configurations of the calls
\* that returned True, in call order; a call on an existing file whose backup step
\* completed has written a backup equal to the file as it was before the call; a call
\* that failed in its backup step has left the file as it was.
C10_AppendOnlyWithFaithfulBackup ==
    /\ content = initial \o AcceptedConfigs(calls)
    /\ \A k \in 1..Len(calls) :
         /\ calls[k].existed /\ calls[k].failure \notin BackupFailures
              => calls[k].backup = calls[k].before
         /\ calls[k].failure \in BackupFailures => calls[k].after = calls[k].before

====
